---------------------------- MODULE Spec2Model ----------------------------
(***************************************************************************)
(* A model of the braille auto-correct engine (src/braille_autocorrect.py): *)
(* the encoder, the length-bucketed pattern index, the budgeted edit        *)
(* distance, the candidate search and the learned-correction store with    *)
(* its memory file; remember_choice as the threads of src/web_app.py run    *)
(* it; and the module-level suggest_word.                                   *)
(*                                                                          *)
(* Representation.  A Python str is a sequence of one-character strings     *)
(* ("cat" is <<"c","a","t">>); a braille pattern is a sequence over {0,1}.  *)
(* An optional int (max_distance = None) is <<>> for None and <<n>> for n.  *)
(* A confidence is kept in thousandths (1.0 is 1000), which is exactly what *)
(* round(confidence, 3) leaves.  The memory file is the text json.dump      *)
(* writes and json.load parses, a sequence of characters.                   *)
(***************************************************************************)
EXTENDS Integers, Sequences, FiniteSets, TLC

VARIABLES
    dictionary,        \* self.dictionary: list of words
    braille_words,     \* self.braille_words: insertion-ordered dict word -> pattern
    words_by_length,   \* self.words_by_length: pattern length -> list of words
    user_corrections,  \* self.user_corrections: whatever load_memory returned, then updated
    memory_file,       \* the content of the file named self.memory_file
    last_remember,     \* history: per lowercased typed key, the latest remember_choice call
    workers,           \* the web requests running remember_choice, each with its position
    pc,                \* "idle" (no call in progress) or "returned" (a call has just returned)
    call,              \* the operation last invoked, with its arguments
    result             \* what that operation returned or raised

vars == <<dictionary, braille_words, words_by_length, user_corrections,
          memory_file, last_remember, workers, pc, call, result>>

---------------------------------------------------------------------------
(* Bounds of the model. *)

\* longest pattern handed directly to levenshtein_optimized in SpecDist
MaxCodeLen == 4
\* largest explicit max_distance handed to levenshtein_optimized in SpecDist
MaxBudget == 2
\* largest explicit max_distance handed to suggest_words
MaxSearchBudget == 2
\* largest max_suggestions handed to suggest_words
MaxSuggestions == 2
\* number of web requests that run remember_choice at the same time
MaxWorkers == 2

---------------------------------------------------------------------------
(* Python values. *)

None == <<>>

Some(n) == <<n>>

\* bool(x) for an optional int: None and 0 are falsy
Truthy(x) == x # None /\ x[1] # 0

Abs(x) == IF x < 0 THEN -x ELSE x

Min2(x, y) == IF x <= y THEN x ELSE y

RECURSIVE MinOfSeq(_)
MinOfSeq(s) == IF Len(s) = 1 THEN s[1] ELSE Min2(s[1], MinOfSeq(Tail(s)))

\* x in list
InSeq(x, s) == \E i \in 1..Len(s) : s[i] = x

\* lst[:k] for a Python list and any integer k
SliceTo(s, k) ==
    IF k >= 0 THEN SubSeq(s, 1, Min2(k, Len(s)))
    ELSE SubSeq(s, 1, IF Len(s) + k > 0 THEN Len(s) + k ELSE 0)

lower_table ==
    [A |-> "a", B |-> "b", C |-> "c", D |-> "d", E |-> "e", F |-> "f", G |-> "g",
     H |-> "h", I |-> "i", J |-> "j", K |-> "k", L |-> "l", M |-> "m", N |-> "n",
     O |-> "o", P |-> "p", Q |-> "q", R |-> "r", S |-> "s", T |-> "t", U |-> "u",
     V |-> "v", W |-> "w", X |-> "x", Y |-> "y", Z |-> "z"]

\* c.lower() for one character
LowerChar(c) == IF c \in DOMAIN lower_table THEN lower_table[c] ELSE c

\* s.lower()
Lower(s) == [i \in 1..Len(s) |-> LowerChar(s[i])]

---------------------------------------------------------------------------
(* Encoder. *)

braille_map ==
    [a |-> <<1,0,0,0,0,0>>, b |-> <<1,1,0,0,0,0>>, c |-> <<1,0,0,1,0,0>>,
     d |-> <<1,0,0,1,1,0>>, e |-> <<1,0,0,0,1,0>>, f |-> <<1,1,0,1,0,0>>,
     g |-> <<1,1,0,1,1,0>>, h |-> <<1,1,0,0,1,0>>, i |-> <<0,1,0,1,0,0>>,
     j |-> <<0,1,0,1,1,0>>, k |-> <<1,0,1,0,0,0>>, l |-> <<1,1,1,0,0,0>>,
     m |-> <<1,0,1,1,0,0>>, n |-> <<1,0,1,1,1,0>>, o |-> <<1,0,1,0,1,0>>,
     p |-> <<1,1,1,1,0,0>>, q |-> <<1,1,1,1,1,0>>, r |-> <<1,1,1,0,1,0>>,
     s |-> <<0,1,1,1,0,0>>, t |-> <<0,1,1,1,1,0>>, u |-> <<1,0,1,0,0,1>>,
     v |-> <<1,1,1,0,0,1>>, w |-> <<0,1,0,1,1,1>>, x |-> <<1,0,1,1,0,1>>,
     y |-> <<1,0,1,1,1,1>>, z |-> <<1,0,1,0,1,1>>]

\* self.braille_map.get(c.lower(), '000000')
CharToBraille(c) ==
    IF LowerChar(c) \in DOMAIN braille_map THEN braille_map[LowerChar(c)]
    ELSE <<0,0,0,0,0,0>>

RECURSIVE word_to_braille(_)
word_to_braille(word) ==
    IF Len(word) = 0 THEN <<>>
    ELSE CharToBraille(Head(word)) \o word_to_braille(Tail(word))

---------------------------------------------------------------------------
(* Distance engine. *)

\* Cell with the substitution cost forgotten: change is never incremented
Cell_free_substitution(previous_row, current_row, s1, ch2, j) ==
    LET add    == previous_row[j + 1] + 1
        delete == current_row[j] + 1
        change == previous_row[j]
    IN  Min2(add, Min2(delete, change))

\* Cell reading s1[j - 2] instead of s1[j - 1] (index -1 wraps to the end)
Cell_wrong_index(previous_row, current_row, s1, ch2, j) ==
    LET add    == previous_row[j + 1] + 1
        delete == current_row[j] + 1
        change == previous_row[j]
                  + (IF s1[IF j = 1 THEN Len(s1) ELSE j - 1] # ch2 THEN 1 ELSE 0)
    IN  Min2(add, Min2(delete, change))

\* one cell of the row: min(add, delete, change)
Cell(previous_row, current_row, s1, ch2, j) ==
    LET add    == previous_row[j + 1] + 1
        delete == current_row[j] + 1
        change == previous_row[j] + (IF s1[j] # ch2 THEN 1 ELSE 0)
    IN  Min2(add, Min2(delete, change))

\* the inner loop, for j in range(1, n + 1); row index j of the code is j + 1 here
RECURSIVE FillRow(_, _, _, _, _)
FillRow(previous_row, current_row, s1, ch2, j) ==
    IF j > Len(s1) THEN current_row
    ELSE FillRow(previous_row,
                 Append(current_row, Cell(previous_row, current_row, s1, ch2, j)),
                 s1, ch2, j + 1)

\* EarlyStop with >= for >: stops once no cell is below the budget
EarlyStop_at_budget(current_row, max_distance) ==
    Truthy(max_distance) /\ MinOfSeq(current_row) >= max_distance[1]

\* the early-termination test after each row
EarlyStop(current_row, max_distance) ==
    Truthy(max_distance) /\ MinOfSeq(current_row) > max_distance[1]

\* the outer loop, for i in range(1, m + 1), s1 being the shorter string.
\* Every row has n + 1 entries; taking its length first makes TLC build the
\* row before the next one is started, as the code does.
RECURSIVE RowLoop(_, _, _, _, _)
RowLoop(s1, s2, current_row, i, max_distance) ==
    IF i > Len(s2) THEN current_row[Len(s1) + 1]
    ELSE LET row == FillRow(current_row, <<i>>, s1, s2[i], 1)
         IN  IF Len(row) = Len(s1) + 1 /\ EarlyStop(row, max_distance)
             THEN max_distance[1] + 1
             ELSE RowLoop(s1, s2, row, i + 1, max_distance)

\* the length fast path: abs(len(s1) - len(s2)) > (max_distance or float('inf'))
FastPath(s1, s2, max_distance) ==
    Truthy(max_distance) /\ Abs(Len(s1) - Len(s2)) > max_distance[1]

levenshtein_optimized(s1, s2, max_distance) ==
    IF FastPath(s1, s2, max_distance) THEN max_distance[1] + 1
    ELSE IF Len(s1) > Len(s2)
         THEN RowLoop(s2, s1, [j \in 1..(Len(s2) + 1) |-> j - 1], 1, max_distance)
         ELSE RowLoop(s1, s2, [j \in 1..(Len(s1) + 1) |-> j - 1], 1, max_distance)

---------------------------------------------------------------------------
(* Dictionary source and pattern index. *)

\* the built-in word list load_dictionary returns when the file is not found
DefaultWords ==
    << <<"c","a","t">>, <<"c","a","p">>, <<"b","a","t">>, <<"r","a","t">>,
       <<"c","a","r">>, <<"d","o","g">>, <<"c","a","n">>, <<"h","e","l","p">>,
       <<"h","e","l","l","o">> >>

\* line.strip().lower() for the lines kept by "if line.strip()"; a dictionary
\* file is modelled by the sequence of its stripped non-blank lines
RECURSIVE LowerAll(_)
LowerAll(lines) ==
    IF Len(lines) = 0 THEN <<>> ELSE <<Lower(Head(lines))>> \o LowerAll(Tail(lines))

\* file is [found |-> FALSE] or [found |-> TRUE, lines |-> ...]
load_dictionary(file) ==
    IF file.found THEN LowerAll(file.lines) ELSE DefaultWords

\* d[key] = value on an insertion-ordered dict kept as a sequence of <<key, value>>
DictSet(d, key, value) ==
    IF \E i \in 1..Len(d) : d[i][1] = key
    THEN [i \in 1..Len(d) |-> IF d[i][1] = key THEN <<key, value>> ELSE d[i]]
    ELSE Append(d, <<key, value>>)

\* d[key] for a key that is present
DictGet(d, key) == d[CHOOSE i \in 1..Len(d) : d[i][1] = key][2]

\* defaultdict(list): buckets[n].append(word)
BucketAppend(buckets, n, word) ==
    IF n \in DOMAIN buckets THEN [buckets EXCEPT ![n] = Append(@, word)]
    ELSE [x \in (DOMAIN buckets) \cup {n} |-> IF x = n THEN <<word>> ELSE buckets[x]]

\* the loop of _preprocess_dictionary over words, from the index idx = [bw, wbl]
RECURSIVE PreprocessLoop(_, _)
PreprocessLoop(words, idx) ==
    IF Len(words) = 0 THEN idx
    ELSE LET word == Head(words)
             braille_pattern == word_to_braille(word)
         IN  PreprocessLoop(Tail(words),
                 [bw  |-> DictSet(idx.bw, word, braille_pattern),
                  wbl |-> BucketAppend(idx.wbl, Len(braille_pattern), word)])

\* _preprocess_dictionary on the empty index __init__ creates
preprocess_dictionary(words) == PreprocessLoop(words, [bw |-> <<>>, wbl |-> <<>>])

---------------------------------------------------------------------------
(* Learned-correction store. *)

\* A value json.load can return: an object, an array, a string, or a scalar
\* (number, true, false, null).
JsonDict(m) == [kind |-> "dict", map |-> m]

JsonList(xs) == [kind |-> "list", items |-> xs]

JsonStr(t) == [kind |-> "str", text |-> t]

JsonScalar == [kind |-> "scalar"]

EmptyMap == [x \in {} |-> <<>>]

\* m[key] = value on a mapping kept as a function
MapSet(m, key, value) ==
    [x \in (DOMAIN m) \cup {key} |-> IF x = key THEN value ELSE m[x]]

\* The file named memory_file is missing, or holds a text: a sequence of
\* characters.
FileAbsent == [kind |-> "absent"]

FileText(t) == [kind |-> "text", text |-> t]

\* EscapeChars that writes every character as it is
EscapeChars_verbatim(t) == t

\* json.dump of one str: quotes around it, '"' and '\' escaped by a backslash
RECURSIVE EscapeChars(_)
EscapeChars(t) ==
    IF Len(t) = 0 THEN <<>>
    ELSE (IF Head(t) \in {"\"", "\\"} THEN <<"\\", Head(t)>> ELSE <<Head(t)>>)
         \o EscapeChars(Tail(t))

DumpStr(t) == <<"\"">> \o EscapeChars(t) \o <<"\"">>

\* one member line of json.dump(..., indent=2): two spaces, "key": "value"
DumpMember(key, value) == <<" ", " ">> \o DumpStr(key) \o <<":", " ">> \o DumpStr(value)

\* the member lines joined by ",\n".  The code writes them in the dict's
\* insertion order; the mapping is kept here as a function, and the lines are
\* written in a fixed order of its keys.
RECURSIVE DumpMembers(_, _)
DumpMembers(m, keys) ==
    IF keys = {} THEN <<>>
    ELSE LET key == CHOOSE k \in keys : TRUE
         IN  DumpMember(key, m[key])
             \o (IF keys = {key} THEN <<>> ELSE <<",", "\n">>)
             \o DumpMembers(m, keys \ {key})

\* json.dump(self.user_corrections, f, indent=2) for a dict of str to str
Dump(m) ==
    IF DOMAIN m = {} THEN <<"{", "}">>
    ELSE <<"{", "\n">> \o DumpMembers(m, DOMAIN m) \o <<"\n", "}">>

\* json.load, as a parser of the text: the result of a parsing step is
\* [ok |-> FALSE] or [ok |-> TRUE, value |-> v, next |-> position after it]
ParseFail == [ok |-> FALSE]

ParseOk(v, i) == [ok |-> TRUE, value |-> v, next |-> i]

RECURSIVE SkipWs(_, _)
SkipWs(text, i) ==
    IF i <= Len(text) /\ text[i] \in {" ", "\n"} THEN SkipWs(text, i + 1) ELSE i

\* TRUE when the character at i is c
At(text, i, c) == i <= Len(text) /\ text[i] = c

\* the characters of a string from i, the position after its opening quote
RECURSIVE ParseChars(_, _, _)
ParseChars(text, i, acc) ==
    IF i > Len(text) \/ text[i] = "\n" THEN ParseFail
    ELSE IF text[i] = "\"" THEN ParseOk(acc, i + 1)
    ELSE IF text[i] = "\\"
         THEN IF i + 1 <= Len(text) /\ text[i + 1] \in {"\"", "\\"}
              THEN ParseChars(text, i + 2, Append(acc, text[i + 1]))
              ELSE ParseFail
    ELSE ParseChars(text, i + 1, Append(acc, text[i]))

ParseStr(text, i) == IF At(text, i, "\"") THEN ParseChars(text, i + 1, <<>>) ELSE ParseFail

\* the members of an object from i, where a key is expected; a repeated key
\* keeps its last value
RECURSIVE ParseMembers(_, _, _)
ParseMembers(text, i, m) ==
    LET key == ParseStr(text, i)
        colon == SkipWs(text, key.next)
        value == ParseStr(text, SkipWs(text, colon + 1))
        after == SkipWs(text, value.next)
        members == MapSet(m, key.value, value.value)
    IN  IF ~key.ok \/ ~At(text, colon, ":") \/ ~value.ok THEN ParseFail
        ELSE IF At(text, after, "}") THEN ParseOk(JsonDict(members), after + 1)
        ELSE IF At(text, after, ",")
             THEN ParseMembers(text, SkipWs(text, after + 1), members)
        ELSE ParseFail

\* the items of an array from i, where an item is expected
RECURSIVE ParseItems(_, _, _)
ParseItems(text, i, xs) ==
    LET item == ParseStr(text, i)
        after == SkipWs(text, item.next)
    IN  IF ~item.ok THEN ParseFail
        ELSE IF At(text, after, "]") THEN ParseOk(JsonList(Append(xs, item.value)), after + 1)
        ELSE IF At(text, after, ",")
             THEN ParseItems(text, SkipWs(text, after + 1), Append(xs, item.value))
        ELSE ParseFail

RECURSIVE ParseDigits(_, _)
ParseDigits(text, i) ==
    IF i <= Len(text) /\ text[i] \in {"0", "1", "2", "3", "4", "5", "6", "7", "8", "9"}
    THEN ParseDigits(text, i + 1) ELSE i

\* one JSON value from i: an object of strings, an array of strings, a
\* string or an unsigned integer (the JSON texts the model's files hold)
ParseValue(text, i) ==
    IF At(text, i, "{")
    THEN IF At(text, SkipWs(text, i + 1), "}")
         THEN ParseOk(JsonDict(EmptyMap), SkipWs(text, i + 1) + 1)
         ELSE ParseMembers(text, SkipWs(text, i + 1), EmptyMap)
    ELSE IF At(text, i, "[")
    THEN IF At(text, SkipWs(text, i + 1), "]")
         THEN ParseOk(JsonList(<<>>), SkipWs(text, i + 1) + 1)
         ELSE ParseItems(text, SkipWs(text, i + 1), <<>>)
    ELSE IF At(text, i, "\"")
    THEN LET str == ParseStr(text, i)
         IN  IF str.ok THEN ParseOk(JsonStr(str.value), str.next) ELSE ParseFail
    ELSE IF ParseDigits(text, i) > i THEN ParseOk(JsonScalar, ParseDigits(text, i))
    ELSE ParseFail

\* json.load(f): one value, then nothing but white space
json_load(text) ==
    LET parsed == ParseValue(text, SkipWs(text, 1))
    IN  IF parsed.ok /\ SkipWs(text, parsed.next) > Len(text) THEN parsed
        ELSE ParseFail

\* os.path.exists, then json.load under a bare except
load_memory(file) ==
    IF file.kind = "text" /\ json_load(file.text).ok THEN json_load(file.text).value
    ELSE JsonDict(EmptyMap)

\* self.user_corrections.values()
MapValues(m) == {m[x] : x \in DOMAIN m}

\* t in s for two Python strings (substring test)
IsSubstring(t, s) ==
    \E i \in 0..(Len(s) - Len(t)) : SubSeq(s, i + 1, i + Len(t)) = t

---------------------------------------------------------------------------
(* Candidate search. *)

\* what a call hands back: a returned value or a raised exception
Returned(v) == [kind |-> "return", value |-> v]

Raised(e) == [kind |-> "raise", exc |-> e]

\* remember_choice returning after its except branch printed the warning
Warned == [kind |-> "return", value |-> None, warning |-> "Could not save correction memory"]

\* the adaptive max_distance, from the length of the lowercased input word
AdaptiveBudget(input_word) ==
    IF Len(input_word) <= 3 THEN 6 ELSE IF Len(input_word) <= 5 THEN 5 ELSE 4

\* search_lengths: input_len, then for i in range(1, max_distance + 1) the
\* length input_len - i when it is positive, and input_len + i
RECURSIVE SearchLoop(_, _, _, _)
SearchLoop(search_lengths, input_len, i, max_distance) ==
    IF i > max_distance THEN search_lengths
    ELSE SearchLoop(
             (IF input_len - i > 0 THEN Append(search_lengths, input_len - i)
              ELSE search_lengths) \o <<input_len + i>>,
             input_len, i + 1, max_distance)

SearchLengths(input_len, max_distance) ==
    SearchLoop(<<input_len>>, input_len, 1, max_distance)

\* the words visited by the two nested for loops, in visiting order
RECURSIVE ProbedWords(_, _)
ProbedWords(buckets, search_lengths) ==
    IF Len(search_lengths) = 0 THEN <<>>
    ELSE (IF Head(search_lengths) \in DOMAIN buckets
          THEN buckets[Head(search_lengths)] ELSE <<>>)
         \o ProbedWords(buckets, Tail(search_lengths))

\* the test that keeps a probed word
Qualifies(distance, max_distance) == distance <= max_distance

\* the probed words whose budgeted distance is within max_distance, each with
\* that distance and the length of its pattern
RECURSIVE KeepLoop(_, _, _, _)
KeepLoop(words, index, input_braille, max_distance) ==
    IF Len(words) = 0 THEN <<>>
    ELSE LET word == Head(words)
             word_braille == DictGet(index, word)
             distance == levenshtein_optimized(input_braille, word_braille,
                                               Some(max_distance))
             rest == KeepLoop(Tail(words), index, input_braille, max_distance)
         IN  IF Qualifies(distance, max_distance)
             THEN << <<word, distance, Len(word_braille)>> >> \o rest
             ELSE rest

\* round(x) to the nearest integer, ties to even, for x = num / den >= 0
RoundHalfEven(num, den) ==
    LET q == num \div den
        r == num % den
    IN  IF 2 * r > den \/ (2 * r = den /\ q % 2 = 1) THEN q + 1 ELSE q

\* the +0.1 for a word found among the learned values, in thousandths
LearnedBonus(learned) == IF learned THEN 100 ELSE 0

\* round(1.0 - distance / (len(input_braille) + len(word_braille)) [+ 0.1], 3),
\* in thousandths; exact for distance <= 14 (the float sum is off the exact
\* tie only from 15 / 48 on)
Confidence(distance, input_len, word_len, learned) ==
    RoundHalfEven(1000 * (input_len + word_len - distance), input_len + word_len)
    + LearnedBonus(learned)

\* the suggestions appended for the kept words, user_corrections being a dict
Scored(kept, input_len, learned_values) ==
    [i \in 1..Len(kept) |->
        <<kept[i][1], kept[i][2],
          Confidence(kept[i][2], input_len, kept[i][3], kept[i][1] \in learned_values)>>]

\* the sort key without the confidence: key=lambda x: x[1]
RankedBefore_distance_only(x, y) == x[2] < y[2]

\* key=lambda x: (x[1], -x[2]) compared as tuples
RankedBefore(x, y) == x[2] < y[2] \/ (x[2] = y[2] /\ -x[3] < -y[3])

\* key=lambda x: x[1]
CloserThan(x, y) == x[2] < y[2]

\* list.sort is stable: x goes before the first element that must follow it
InsertRanked(sorted, x) ==
    LET after == {i \in 1..Len(sorted) : RankedBefore(x, sorted[i])}
        pos == IF after = {} THEN Len(sorted) + 1
               ELSE CHOOSE i \in after : \A k \in after : i <= k
    IN  SubSeq(sorted, 1, pos - 1) \o <<x>> \o SubSeq(sorted, pos, Len(sorted))

RECURSIVE SortRankedLoop(_, _)
SortRankedLoop(sorted, rest) ==
    IF Len(rest) = 0 THEN sorted
    ELSE SortRankedLoop(InsertRanked(sorted, Head(rest)), Tail(rest))

\* suggestions.sort(key=lambda x: (x[1], -x[2]))
SortRanked(suggestions) == SortRankedLoop(<<>>, suggestions)

InsertCloser(sorted, x) ==
    LET after == {i \in 1..Len(sorted) : CloserThan(x, sorted[i])}
        pos == IF after = {} THEN Len(sorted) + 1
               ELSE CHOOSE i \in after : \A k \in after : i <= k
    IN  SubSeq(sorted, 1, pos - 1) \o <<x>> \o SubSeq(sorted, pos, Len(sorted))

RECURSIVE SortCloserLoop(_, _)
SortCloserLoop(sorted, rest) ==
    IF Len(rest) = 0 THEN sorted
    ELSE SortCloserLoop(InsertCloser(sorted, Head(rest)), Tail(rest))

\* fallback.sort(key=lambda x: x[1])
SortCloser(fallback) == SortCloserLoop(<<>>, fallback)

\* the fallback list: every indexed word with its exact distance and 0.0
RECURSIVE FallbackList(_, _)
FallbackList(index, input_braille) ==
    IF Len(index) = 0 THEN <<>>
    ELSE LET word == Head(index)[1]
             braille == Head(index)[2]
         IN  << <<word, levenshtein_optimized(input_braille, braille, None), 0>> >>
             \o FallbackList(Tail(index), input_braille)

\* fallback[:1] of the sorted fallback list
Fallback(index, input_braille) == SliceTo(SortCloser(FallbackList(index, input_braille)), 1)

\* suggestions[:max_suggestions]
Truncate(suggestions, max_suggestions) == SliceTo(suggestions, max_suggestions)

\* max_distance after "if max_distance is None"
SearchBudget(input_word, max_distance_arg) ==
    IF max_distance_arg = None THEN AdaptiveBudget(input_word) ELSE max_distance_arg[1]

\* the candidates the two nested loops keep for the lowercased input word
Kept(input_word, max_distance_arg) ==
    LET input_braille == word_to_braille(input_word)
        max_distance == SearchBudget(input_word, max_distance_arg)
    IN  KeepLoop(ProbedWords(words_by_length,
                             SearchLengths(Len(input_braille), max_distance)),
                 braille_words, input_braille, max_distance)

\* suggest_words from "input_braille = ..." on (no learned correction applied)
Search(input_word, max_suggestions, max_distance_arg) ==
    LET input_braille == word_to_braille(input_word)
        input_len == Len(input_braille)
        kept == Kept(input_word, max_distance_arg)
    IN  IF Len(kept) = 0 THEN Returned(Fallback(braille_words, input_braille))
        ELSE IF input_len + kept[1][3] = 0 THEN Raised("ZeroDivisionError")
        ELSE IF user_corrections.kind # "dict" THEN Raised("AttributeError")
        ELSE Returned(Truncate(
                 SortRanked(Scored(kept, input_len, MapValues(user_corrections.map))),
                 max_suggestions))

\* the learned-correction test at the top of suggest_words: TRUE when the
\* lowercased input has a learned word that is in the dictionary
LearnedHit(input_word) ==
    /\ user_corrections.kind = "dict"
    /\ input_word \in DOMAIN user_corrections.map
    /\ InSeq(user_corrections.map[input_word], dictionary)

\* "input_word in self.user_corrections" followed by the subscript, when
\* user_corrections is not a dict: TRUE when that raises TypeError
LookupRaises(input_word) ==
    \/ user_corrections.kind = "scalar"
    \/ user_corrections.kind = "list" /\ InSeq(input_word, user_corrections.items)
    \/ user_corrections.kind = "str" /\ IsSubstring(input_word, user_corrections.text)

suggest_words(input_word_arg, max_suggestions, max_distance) ==
    LET input_word == Lower(input_word_arg)
    IN  IF LookupRaises(input_word) THEN Raised("TypeError")
        ELSE IF LearnedHit(input_word)
        THEN Returned(<< <<user_corrections.map[input_word], 0, 1000>> >>)
        ELSE Search(input_word, max_suggestions, max_distance)

\* remember_choice storing the typed word as given, not lowercased
remember_update_keeps_case(map, typed, corrected) == MapSet(map, typed, Lower(corrected))

\* the mapping after self.user_corrections[typed.lower()] = corrected.lower()
remember_update(map, typed, corrected) == MapSet(map, Lower(typed), Lower(corrected))

---------------------------------------------------------------------------
(* The inputs the callers are modelled to supply. *)

\* dictionary files: an empty file, and a three-line file with a capital
DictionaryFiles ==
    { [found |-> TRUE, lines |-> <<>>],
      [found |-> TRUE, lines |-> << <<"b">>, <<"C">>, <<"a","b">> >>] }

\* the missing dictionary file of the shipped scenarios
MissingDictionary == [found |-> FALSE]

\* a text json.load rejects: {"x
FileGarbage == FileText(<<"{", "\"", "x">>)

\* memory files: missing, unparseable, the object {"xy":"b","XY":"B"} (one
\* key normalised, one not), the array ["c"], the string "c" and the number 5
MemoryFiles ==
    { FileAbsent, FileGarbage,
      FileText(<<"{", "\"", "x", "y", "\"", ":", "\"", "b", "\"", ",",
                 "\"", "X", "Y", "\"", ":", "\"", "B", "\"", "}">>),
      FileText(<<"[", "\"", "c", "\"", "]">>),
      FileText(<<"\"", "c", "\"">>),
      FileText(<<"5">>) }

\* words typed into suggest_words: empty, a near miss, a dictionary word, a
\* dictionary word in capitals, a learned key in mixed case, unmapped
\* characters, and inputs long enough for each adaptive budget
SuggestInputs ==
    { <<>>, <<"a">>, <<"b">>, <<"C">>, <<"x","Y">>, <<"1","1","1","1">>,
      <<"a","a","a","a","a","a">> }

\* the inputs of run_tests and test_edge_cases
ScenarioInputs ==
    { <<"c","a","k">>, <<"d","g">>, <<"c","a","n","n">>, <<"b","a","a","t">>,
      <<"h","e","l","l","l","o">>, <<"h","o","p","p","e">>, <<"x","y","z">>,
      <<>>, <<"a">>, <<"1","2","3">> }

RememberTyped == { <<"X","y">>, <<"B">> }

\* a dictionary word in capitals, and z" (not a dictionary word)
RememberCorrected == { <<"C">>, <<"z","\"">> }

ScenarioTyped == { <<"x","y","z">>, <<"c","a","k">> }

ScenarioCorrected == { <<"c","a","t">>, <<"C","a","p">> }

\* words handed to suggest_word: a near miss of the file's words, and empty
CompatInputs == { <<"a">>, <<>> }

\* dictionaries handed to suggest_word: none of the file's words in them
SuppliedDictionaries ==
    { <<>>, << <<"z","z">> >>, << <<"z">>, <<>> >> }

\* max_distance arguments: None or 0..n
Budgets(n) == {None} \cup {Some(b) : b \in 0..n}

\* patterns of at most n cells
Codes(n) == UNION {[1..k -> {0, 1}] : k \in 0..n}

\* how the write in remember_choice ends: the file is rewritten, open() fails
\* (the file is untouched), or the write fails after open() truncated the
\* file, with nothing or with only the start of the text in it
WriteOutcomes == {"written", "open_failed", "write_failed_empty", "write_failed_partial"}

---------------------------------------------------------------------------
(* Operations. *)

NoCall == [op |-> "none"]

NoResult == [kind |-> "none"]

\* __init__: load the dictionary and the memory, build the index
Construct(dictionary_file, file) ==
    LET words == load_dictionary(dictionary_file)
        idx == preprocess_dictionary(words)
    IN  /\ dictionary = words
        /\ memory_file = file
        /\ user_corrections = load_memory(file)
        /\ braille_words = idx.bw
        /\ words_by_length = idx.wbl
        /\ last_remember = EmptyMap
        /\ pc = "idle"
        /\ call = NoCall
        /\ result = NoResult

\* the file after the try block of remember_choice
WrittenFile(file, corrections, outcome) ==
    IF outcome = "written" THEN FileText(Dump(corrections))
    ELSE IF outcome = "open_failed" THEN file
    ELSE IF outcome = "write_failed_empty" THEN FileText(<<>>)
    ELSE FileText(SubSeq(Dump(corrections), 1, 1))

\* a call starts only when the previous one has been taken by its caller
Idle == pc = "idle"

SuggestWords(input_word, max_suggestions, max_distance) ==
    /\ Idle
    /\ pc' = "returned"
    /\ call' = [op |-> "suggest_words", input_word |-> input_word,
                max_suggestions |-> max_suggestions, max_distance |-> max_distance]
    /\ result' = suggest_words(input_word, max_suggestions, max_distance)
    /\ UNCHANGED <<dictionary, braille_words, words_by_length, user_corrections,
                   memory_file, last_remember, workers>>

RememberChoice(typed, corrected, outcome) ==
    /\ Idle
    /\ pc' = "returned"
    /\ call' = [op |-> "remember_choice", typed |-> typed, corrected |-> corrected]
    /\ IF user_corrections.kind = "dict"
       THEN LET updated == remember_update(user_corrections.map, typed, corrected)
                written == WrittenFile(memory_file, updated, outcome)
            IN  /\ user_corrections' = JsonDict(updated)
                /\ memory_file' = written
                /\ last_remember' = MapSet(last_remember, Lower(typed),
                                           [typed |-> typed, corrected |-> corrected])
                /\ result' = IF outcome = "written" THEN Returned(None) ELSE Warned
       ELSE /\ result' = Raised("TypeError")
            /\ UNCHANGED <<user_corrections, memory_file, last_remember>>
    /\ UNCHANGED <<dictionary, braille_words, words_by_length, workers>>

\* a direct call of levenshtein_optimized, as debug_braille.py makes
Levenshtein(s1, s2, max_distance) ==
    /\ Idle
    /\ pc' = "returned"
    /\ call' = [op |-> "levenshtein_optimized", s1 |-> s1, s2 |-> s2,
                max_distance |-> max_distance]
    /\ result' = Returned(levenshtein_optimized(s1, s2, max_distance))
    /\ UNCHANGED <<dictionary, braille_words, words_by_length, user_corrections,
                   memory_file, last_remember, workers>>

\* suggest_word up to the re-indexing: a new engine is built on the default
\* dictionary file and the memory file, its dictionary is replaced by the
\* caller's list, and _preprocess_dictionary runs again on the index it has
SuggestWordIndex(input_word, supplied, dictionary_file) ==
    LET words == load_dictionary(dictionary_file)
        idx == PreprocessLoop(supplied, preprocess_dictionary(words))
    IN  /\ Idle
        /\ pc' = "indexed"
        /\ call' = [op |-> "suggest_word", input_word |-> input_word,
                    dictionary |-> supplied, max_suggestions |-> 1,
                    max_distance |-> None]
        /\ result' = NoResult
        /\ dictionary' = supplied
        /\ braille_words' = idx.bw
        /\ words_by_length' = idx.wbl
        /\ user_corrections' = load_memory(memory_file)
        /\ last_remember' = EmptyMap
        /\ UNCHANGED <<memory_file, workers>>

\* the rest of suggest_word, which follows at once: suggest_words with
\* max_suggestions=1, then remember_choice of the best word
SuggestWordAnswer(outcome) ==
    LET suggestions == suggest_words(call.input_word, 1, None)
        best_word == suggestions.value[1][1]
        updated == remember_update(user_corrections.map, call.input_word, best_word)
    IN  /\ pc = "indexed"
        /\ pc' = "returned"
        /\ IF suggestions.kind = "raise"
           THEN /\ result' = suggestions
                /\ UNCHANGED <<user_corrections, memory_file, last_remember>>
           ELSE IF Len(suggestions.value) = 0
           THEN /\ result' = Returned(call.input_word)
                /\ UNCHANGED <<user_corrections, memory_file, last_remember>>
           ELSE IF user_corrections.kind # "dict"
           THEN /\ result' = Raised("TypeError")
                /\ UNCHANGED <<user_corrections, memory_file, last_remember>>
           ELSE /\ result' = Returned(best_word)
                /\ user_corrections' = JsonDict(updated)
                /\ memory_file' = WrittenFile(memory_file, updated, outcome)
                /\ last_remember' = MapSet(last_remember, Lower(call.input_word),
                                           [typed |-> call.input_word,
                                            corrected |-> best_word])
        /\ UNCHANGED <<dictionary, braille_words, words_by_length, workers, call>>

\* the caller takes the result; the engine is ready for the next call
Return ==
    /\ pc = "returned"
    /\ pc' = "idle"
    /\ call' = NoCall
    /\ result' = NoResult
    /\ UNCHANGED <<dictionary, braille_words, words_by_length, user_corrections,
                   memory_file, last_remember, workers>>

---------------------------------------------------------------------------
(* remember_choice step by step, as concurrent requests of the web
   application run it on the one shared engine.  Each request is a thread of
   the server; a thread can be switched out between any two of the steps. *)

\* no request threads: the engine is used by one caller
NoWorkers == <<>>

\* a request thread that has not received its request yet
IdleWorker ==
    [pc |-> "idle", typed |-> <<>>, corrected |-> <<>>, seen |-> {},
     buffer |-> <<>>, warned |-> FALSE]

\* a write of buffer at offset 0 of a file holding old: what lies beyond the
\* end of buffer stays
Overlay(old, buffer) == buffer \o SubSeq(old, Len(buffer) + 1, Len(old))

\* the members json.dump had written when its iteration over the dict failed:
\* the text of the keys seen, without the closing of the object
PartialDump(m, seen) ==
    LET text == Dump([key \in seen |-> m[key]])
    IN  SubSeq(text, 1, Len(text) - 2)

\* api_learn receives a request and calls remember_choice
ApiLearn(w, typed, corrected) ==
    /\ workers[w].pc = "idle"
    /\ workers' = [workers EXCEPT ![w] = [@ EXCEPT !.pc = "update", !.typed = typed,
                                                   !.corrected = corrected]]
    /\ UNCHANGED <<dictionary, braille_words, words_by_length, user_corrections,
                   memory_file, last_remember, pc, call, result>>

\* self.user_corrections[typed.lower()] = corrected.lower()
RememberUpdate(w) ==
    /\ workers[w].pc = "update"
    /\ user_corrections' = JsonDict(remember_update(user_corrections.map,
                                                    workers[w].typed, workers[w].corrected))
    /\ workers' = [workers EXCEPT ![w].pc = "open"]
    /\ UNCHANGED <<dictionary, braille_words, words_by_length, memory_file,
                   last_remember, pc, call, result>>

\* open(self.memory_file, "w"): the file is created or truncated; what the
\* thread writes goes to the buffer of its own file object
RememberOpen(w) ==
    /\ workers[w].pc = "open"
    /\ memory_file' = FileText(<<>>)
    /\ workers' = [workers EXCEPT ![w] = [@ EXCEPT !.pc = "dump", !.buffer = <<>>]]
    /\ UNCHANGED <<dictionary, braille_words, words_by_length, user_corrections,
                   last_remember, pc, call, result>>

\* json.dump starts to iterate over the dict
RememberDumpBegin(w) ==
    /\ workers[w].pc = "dump"
    /\ workers' = [workers EXCEPT ![w] = [@ EXCEPT !.pc = "dumping",
                                                   !.seen = DOMAIN user_corrections.map]]
    /\ UNCHANGED <<dictionary, braille_words, words_by_length, user_corrections,
                   memory_file, last_remember, pc, call, result>>

\* json.dump ends: with the whole text in the buffer, or, when the dict got a
\* new key during the iteration, with RuntimeError (dictionary changed size
\* during iteration), which the except branch turns into the warning
RememberDumpEnd(w) ==
    /\ workers[w].pc = "dumping"
    /\ workers' = [workers EXCEPT ![w] =
           IF DOMAIN user_corrections.map = workers[w].seen
           THEN [@ EXCEPT !.pc = "close", !.buffer = Dump(user_corrections.map)]
           ELSE [@ EXCEPT !.pc = "close", !.warned = TRUE,
                          !.buffer = PartialDump(user_corrections.map, workers[w].seen)]]
    /\ UNCHANGED <<dictionary, braille_words, words_by_length, user_corrections,
                   memory_file, last_remember, pc, call, result>>

\* the with block ends: the file object is closed and its buffer is written
\* at offset 0
RememberClose(w) ==
    /\ workers[w].pc = "close"
    /\ memory_file' = FileText(Overlay(memory_file.text, workers[w].buffer))
    /\ workers' = [workers EXCEPT ![w].pc = "done"]
    /\ UNCHANGED <<dictionary, braille_words, words_by_length, user_corrections,
                   last_remember, pc, call, result>>

---------------------------------------------------------------------------
(* Specifications. *)

\* the engine on a small dictionary file and any memory file
Init ==
    /\ \E d \in DictionaryFiles, f \in MemoryFiles : Construct(d, f)
    /\ workers = NoWorkers

Next ==
    \/ /\ Idle
       /\ \E w \in SuggestInputs, k \in -1..MaxSuggestions, b \in Budgets(MaxSearchBudget) :
              SuggestWords(w, k, b)
    \/ /\ Idle
       /\ \E t \in RememberTyped, c \in RememberCorrected, o \in WriteOutcomes :
              RememberChoice(t, c, o)
    \/ Return

Spec == Init /\ [][Next]_vars

\* the engine of the shipped scenarios: no dictionary file, no memory file
InitScenario == Construct(MissingDictionary, FileAbsent) /\ workers = NoWorkers

NextScenario ==
    \/ /\ Idle
       /\ \E w \in ScenarioInputs, k \in 0..(MaxSuggestions + 1), b \in Budgets(0) :
              SuggestWords(w, k, b)
    \/ /\ Idle
       /\ \E t \in ScenarioTyped, c \in ScenarioCorrected :
              RememberChoice(t, c, "written")
    \/ Return

SpecScenario == InitScenario /\ [][NextScenario]_vars

\* direct calls of the distance function on all short patterns
InitDist == Construct(MissingDictionary, FileAbsent) /\ workers = NoWorkers

NextDist ==
    \/ /\ Idle
       /\ \E s1 \in Codes(MaxCodeLen), s2 \in Codes(MaxCodeLen), b \in Budgets(MaxBudget) :
              Levenshtein(s1, s2, b)
    \/ Return

SpecDist == InitDist /\ [][NextDist]_vars

\* the web application: one engine built at import, no memory file yet, and
\* MaxWorkers requests to /api/learn served by concurrent threads
InitConcurrent ==
    /\ Construct(MissingDictionary, FileAbsent)
    /\ workers = [w \in 1..MaxWorkers |-> IdleWorker]

NextConcurrent ==
    \E w \in 1..MaxWorkers :
        \/ \E t \in RememberTyped, c \in RememberCorrected : ApiLearn(w, t, c)
        \/ RememberUpdate(w)
        \/ RememberOpen(w)
        \/ RememberDumpBegin(w)
        \/ RememberDumpEnd(w)
        \/ RememberClose(w)

SpecConcurrent == InitConcurrent /\ [][NextConcurrent]_vars

\* callers of the module-level suggest_word: each call builds its own engine
\* on the dictionary file and on the memory file the calls share.  Before the
\* first call there is no engine (an empty one stands for it); the memory
\* file is missing or holds the array ["c"].
InitCompat ==
    /\ \E f \in {FileAbsent, FileText(<<"[", "\"", "c", "\"", "]">>)} :
           Construct([found |-> TRUE, lines |-> <<>>], f)
    /\ workers = NoWorkers

NextCompat ==
    \/ /\ Idle
       /\ \E w \in CompatInputs, supplied \in SuppliedDictionaries, d \in DictionaryFiles :
              SuggestWordIndex(w, supplied, d)
    \/ \E o \in WriteOutcomes : SuggestWordAnswer(o)
    \/ Return

SpecCompat == InitCompat /\ [][NextCompat]_vars

---------------------------------------------------------------------------
(* Reference notions the properties are stated with. *)

\* the edit distance by its definition, between a from cell i on and b from
\* cell j on: the cheapest of deleting a cell, inserting a cell, or matching /
\* substituting the first cells
RECURSIVE DistanceFrom(_, _, _, _)
DistanceFrom(a, b, i, j) ==
    IF i > Len(a) THEN Len(b) - j + 1
    ELSE IF j > Len(b) THEN Len(a) - i + 1
    ELSE Min2(DistanceFrom(a, b, i + 1, j) + 1,
              Min2(DistanceFrom(a, b, i, j + 1) + 1,
                   DistanceFrom(a, b, i + 1, j + 1)
                       + (IF a[i] = b[j] THEN 0 ELSE 1)))

\* the edit distance of every pair of patterns SpecDist calls with; joining
\* with the empty function has TLC tabulate it once instead of per state
DistanceTable ==
    [pair \in Codes(MaxCodeLen) \X Codes(MaxCodeLen) |->
        DistanceFrom(pair[1], pair[2], 1, 1)] @@ <<>>

TrueDistance(a, b) == DistanceTable[<<a, b>>]

\* Edit scripts.  A position <<i, j>> is within k edits when the first i
\* cells of a can be turned into the first j cells of b by at most k
\* insertions, deletions and substitutions of one cell.  Equal cells extend a
\* position for free:
Slide(a, b, within) ==
    UNION { { <<p[1] + t, p[2] + t>> :
                t \in { t \in 0..Min2(Len(a) - p[1], Len(b) - p[2]) :
                           \A u \in 1..t : a[p[1] + u] = b[p[2] + u] } } :
            p \in within }

\* and one more edit reaches the neighbours of a position
OneEdit(a, b, within) ==
    within
    \cup { <<p[1] + 1, p[2]>> : p \in { q \in within : q[1] < Len(a) } }
    \cup { <<p[1], p[2] + 1>> : p \in { q \in within : q[2] < Len(b) } }
    \cup { <<p[1] + 1, p[2] + 1>> :
              p \in { q \in within : q[1] < Len(a) /\ q[2] < Len(b) } }

\* the least k for which the end of both patterns is within k edits
RECURSIVE ScriptLoop(_, _, _, _)
ScriptLoop(a, b, within, k) ==
    IF <<Len(a), Len(b)>> \in within THEN k
    ELSE ScriptLoop(a, b, Slide(a, b, OneEdit(a, b, within)), k + 1)

ScriptDistance(a, b) == ScriptLoop(a, b, Slide(a, b, {<<0, 0>>}), 0)

\* the patterns of the words typed and of the words a dictionary can hold
TypedCodes == { word_to_braille(Lower(w)) : w \in SuggestInputs \cup CompatInputs }

Elems(words) == { words[i] : i \in 1..Len(words) }

WordCodes ==
    { word_to_braille(w) :
        w \in UNION ({ Elems(load_dictionary(d)) : d \in DictionaryFiles }
                     \cup { Elems(supplied) : supplied \in SuppliedDictionaries }) }

\* the edit distance of every typed pattern to every word pattern, tabulated
\* once (see DistanceTable)
ScriptTable ==
    [pair \in TypedCodes \X WordCodes |-> ScriptDistance(pair[1], pair[2])] @@ <<>>

\* the words of the current dictionary within budget of the typed word, each
\* with its edit distance
Qualifying(input_word, budget) ==
    LET code == word_to_braille(input_word)
    IN  { <<w, ScriptTable[<<code, word_to_braille(w)>>]>> :
            w \in { v \in Elems(dictionary) :
                      ScriptTable[<<code, word_to_braille(v)>>] <= budget } }

\* a call of suggest_words has just ended
SuggestEnded == pc = "returned" /\ call.op = "suggest_words"

\* a call of suggest_words has just returned a list
SuggestReturned == SuggestEnded /\ result.kind = "return"

\* a direct call of levenshtein_optimized has just returned
DistanceReturned == pc = "returned" /\ call.op = "levenshtein_optimized"

---------------------------------------------------------------------------
(* Properties. *)

\* the latest remember_choice call for the lowercased input of the current
\* suggest_words call taught a word that is in the dictionary
TaughtInput ==
    /\ SuggestEnded
    /\ call.max_suggestions >= 1
    /\ Lower(call.input_word) \in DOMAIN last_remember
    /\ InSeq(Lower(last_remember[Lower(call.input_word)].corrected), dictionary)

\* C1: once remember_choice(t, c) has returned with lowercase(c) a dictionary
\* word, and until a later remember_choice uses the same lowercased key,
\* suggest_words(t', k, budget) with lowercase(t') = lowercase(t) and k >= 1
\* returns exactly the one-element list [(lowercase(c), 0, 1.0)].
C1_LearningShortCircuit ==
    TaughtInput =>
        result = Returned(<< <<Lower(last_remember[Lower(call.input_word)].corrected),
                               0, 1000>> >>)

\* C1 witness: the input is spelled differently from the word that was typed
\* when teaching, is itself a dictionary word, and comes with a supplied
\* budget; the taught word alone is returned
C1_Witness ==
    /\ TaughtInput
    /\ call.input_word # last_remember[Lower(call.input_word)].typed
    /\ InSeq(call.input_word, dictionary)
    /\ call.max_distance # None
    /\ result = Returned(<< << <<"c">>, 0, 1000>> >>)
    /\ result.value[1][1] # call.input_word

\* C2: with a non-empty dictionary, whatever the learning store holds, every
\* suggest_words call with max_suggestions >= 1 returns normally and returns
\* at least one suggestion.
C2_NonEmptyFallback ==
    (SuggestEnded /\ Len(dictionary) > 0 /\ call.max_suggestions >= 1) =>
        (result.kind = "return" /\ Len(result.value) >= 1)

\* C3: suggest_words(w, k >= 1, any budget) for a dictionary word w that the
\* learning store has no entry for returns w first, with distance 0 and
\* confidence 1.0.
C3_ExactMatchIdentity ==
    (/\ SuggestEnded
     /\ call.max_suggestions >= 1
     /\ InSeq(call.input_word, dictionary)
     /\ user_corrections.kind = "dict"
     /\ call.input_word \notin DOMAIN user_corrections.map) =>
        (/\ result.kind = "return"
         /\ Len(result.value) >= 1
         /\ result.value[1] = <<call.input_word, 0, 1000>>)

\* C4: in every list suggest_words returns, distances never decrease from one
\* suggestion to the next, and between neighbours of equal distance the
\* confidence never increases.
C4_RankingOrder ==
    SuggestReturned =>
        \A i \in 1..(Len(result.value) - 1) :
            /\ result.value[i][2] <= result.value[i + 1][2]
            /\ (result.value[i][2] = result.value[i + 1][2]
                    => result.value[i][3] >= result.value[i + 1][3])

\* C4 witness: two neighbours of equal distance and different confidence, the
\* one the dictionary lists later ranked first
C4_Witness ==
    /\ SuggestReturned
    /\ Len(result.value) >= 2
    /\ result.value[1][2] = result.value[2][2]
    /\ result.value[1][3] > result.value[2][3]
    /\ result.value[1][1] = <<"c">>
    /\ result.value[2][1] = <<"b">>

\* a budgeted distance call has returned
BudgetedReturned == DistanceReturned /\ call.max_distance # None

\* C5 as stated: when the true distance exceeds the budget B (B = 0 included),
\* levenshtein_optimized(a, b, B) returns exactly B + 1.
C5_SentinelExact ==
    BudgetedReturned =>
        (TrueDistance(call.s1, call.s2) > call.max_distance[1]
            => result.value = call.max_distance[1] + 1)

\* C5 as amended: when the true distance exceeds the budget B, the value
\* returned is greater than B, and it is either B + 1 or the true distance;
\* for B = 0 it is the true distance.
C5_SentinelAboveBudget ==
    BudgetedReturned =>
        LET true_distance == TrueDistance(call.s1, call.s2)
            budget == call.max_distance[1]
        IN  true_distance > budget =>
                /\ result.value > budget
                /\ result.value \in {budget + 1, true_distance}
                /\ (budget = 0 => result.value = true_distance)

\* C5 witness: a positive budget, neither shortcut fires, and the true
\* distance, more than B + 1, is what comes back
C5_Witness ==
    /\ BudgetedReturned
    /\ call.max_distance[1] >= 1
    /\ result.value > call.max_distance[1] + 1
    /\ result.value = TrueDistance(call.s1, call.s2)

\* C6: without a budget levenshtein_optimized returns the true edit distance;
\* with a budget B the result is <= B exactly when the true distance is, and
\* is then the true distance.
C6_ExactWithinBudget ==
    DistanceReturned =>
        LET true_distance == TrueDistance(call.s1, call.s2)
        IN  IF call.max_distance = None THEN result.value = true_distance
            ELSE /\ (result.value <= call.max_distance[1])
                        <=> (true_distance <= call.max_distance[1])
                 /\ (true_distance <= call.max_distance[1]
                        => result.value = true_distance)

\* C6 witness: a budgeted call on patterns of different lengths, longer one
\* first, whose true distance is exactly the positive budget
C6_Witness ==
    /\ DistanceReturned
    /\ call.max_distance # None
    /\ call.max_distance[1] >= 1
    /\ Len(call.s1) > Len(call.s2)
    /\ Len(call.s2) >= 2
    /\ Len(call.s1) - Len(call.s2) < call.max_distance[1]
    /\ result.value = call.max_distance[1]
    /\ TrueDistance(call.s1, call.s2) = call.max_distance[1]

\* C7: without a budget, levenshtein_optimized(a, b) equals
\* levenshtein_optimized(b, a).
C7_DistanceSymmetry ==
    (DistanceReturned /\ call.max_distance = None) =>
        result.value = levenshtein_optimized(call.s2, call.s1, None)

\* C7 witness: two different patterns of the same length (no swap either
\* way), and a pair with one pattern empty
C7_Witness ==
    /\ DistanceReturned
    /\ call.max_distance = None
    /\ Len(call.s1) = Len(call.s2)
    /\ Len(call.s1) >= 3
    /\ call.s1 # call.s2
    /\ result.value >= 2
    /\ result.value = levenshtein_optimized(call.s2, call.s1, None)

\* C8: every suggestion suggest_words returns has a non-negative integer
\* distance and a confidence within [0, 1].
C8_SuggestionRange ==
    SuggestReturned =>
        \A i \in 1..Len(result.value) :
            /\ result.value[i][2] \in Nat
            /\ result.value[i][3] >= 0
            /\ result.value[i][3] <= 1000

\* C9: suggest_words with max_suggestions <= 0 returns the empty list (no
\* learned short-circuit, no fallback result, no truncated non-empty list).
C9_NonPositiveLimitEmpty ==
    (SuggestEnded /\ call.max_suggestions <= 0 /\ user_corrections.kind = "dict") =>
        result = Returned(<<>>)

\* C10: on the built-in dictionary, with nothing learned and the adaptive
\* budget, the first result of suggest_words("cann") is "can".
C10_CannTopIsCan ==
    (/\ SuggestEnded
     /\ call.input_word = <<"c","a","n","n">>
     /\ call.max_distance = None
     /\ call.max_suggestions >= 1
     /\ dictionary = DefaultWords
     /\ user_corrections = JsonDict(EmptyMap)) =>
        (/\ result.kind = "return"
         /\ Len(result.value) >= 1
         /\ result.value[1][1] = <<"c","a","n">>)

\* a call of remember_choice has just ended
RememberEnded == pc = "returned" /\ call.op = "remember_choice"

\* C11: every remember_choice call returns without raising, whether its write
\* succeeded or failed, and afterwards the in-memory mapping maps every
\* lowercased typed key to the lowercased corrected word of the latest call
\* for that key.
C11_RememberTolerant ==
    RememberEnded =>
        /\ result.kind = "return"
        /\ user_corrections.kind = "dict"
        /\ \A key \in DOMAIN last_remember :
               /\ key \in DOMAIN user_corrections.map
               /\ user_corrections.map[key] = Lower(last_remember[key].corrected)

\* C12: right after a remember_choice call whose write succeeded, what a
\* fresh engine loads from the store is the in-memory mapping of this engine,
\* the entries it loaded at startup included.
C12_PersistenceRoundTrip ==
    (RememberEnded /\ result = Returned(None)) =>
        load_memory(memory_file) = user_corrections

\* C12 witness: the mapping written and read back has an entry loaded at
\* startup under a key remember_choice would never write, an entry that was
\* overwritten, and a word with a quote character in it
C12_Witness ==
    /\ RememberEnded
    /\ result = Returned(None)
    /\ load_memory(memory_file) = user_corrections
    /\ DOMAIN user_corrections.map = {<<"X","Y">>, <<"x","y">>, <<"b">>}
    /\ user_corrections.map[<<"X","Y">>] = <<"B">>
    /\ user_corrections.map[<<"x","y">>] = <<"z","\"">>
    /\ user_corrections.map[<<"b">>] = <<"c">>

\* the file holds a JSON object
StoredMapping(file) ==
    /\ file.kind = "text"
    /\ json_load(file.text).ok
    /\ json_load(file.text).value.kind = "dict"

\* C13: whatever the store held at construction (absent, not parseable, or
\* parseable but not a mapping), the engine starts from an empty mapping when
\* the store held no mapping, and no later suggest_words or remember_choice
\* call raises.
C13_StoreLoadRecovery ==
    /\ (last_remember = EmptyMap /\ ~StoredMapping(memory_file))
            => user_corrections = JsonDict(EmptyMap)
    /\ pc = "returned" => result.kind = "return"

\* C17: a remember_choice call whose write failed (the warning was printed)
\* leaves in the store what a fresh engine would have loaded before the call.
C17_FailedWriteKeepsStore ==
    [][(Idle /\ pc' = "returned" /\ call'.op = "remember_choice" /\ result' = Warned)
          => load_memory(memory_file') = load_memory(memory_file)]_vars

\* every request has been served
AllDone == \A w \in 1..MaxWorkers : workers[w].pc = "done"

\* C14: once all concurrent remember_choice calls have completed, no call has
\* failed on the mapping changing under its write, and the store holds a
\* well-formed mapping equal to the in-memory mapping, every update included.
C14_SerializedWriters ==
    AllDone =>
        /\ \A w \in 1..MaxWorkers : ~workers[w].warned
        /\ StoredMapping(memory_file)
        /\ load_memory(memory_file) = user_corrections
        /\ \A w \in 1..MaxWorkers :
               Lower(workers[w].typed) \in DOMAIN load_memory(memory_file).map

\* a search has just ended: suggest_words itself, or suggest_word around it
SearchEnded == pc = "returned" /\ call.op \in {"suggest_words", "suggest_word"}

\* the words the search kept for the call that has ended, with their distances
KeptPairs ==
    LET kept == Kept(Lower(call.input_word), call.max_distance)
    IN  { <<kept[i][1], kept[i][2]>> : i \in 1..Len(kept) }

\* C15: for every budget B >= 0, supplied or derived from the input length,
\* the candidates the search keeps are exactly the words of the dictionary
\* whose edit distance to the input pattern is <= B, each with that distance;
\* and suggest_words answers with the fallback list when there is no
\* such word, and otherwise with some of these words at these distances.
C15_BucketPruningLossless ==
    LET qualifying == Qualifying(Lower(call.input_word),
                                 SearchBudget(Lower(call.input_word), call.max_distance))
    IN  /\ SearchEnded => KeptPairs = qualifying
        /\ (SuggestReturned /\ ~LearnedHit(Lower(call.input_word))) =>
               IF qualifying = {}
               THEN result.value = Fallback(braille_words,
                                            word_to_braille(Lower(call.input_word)))
               ELSE \A i \in 1..Len(result.value) :
                        <<result.value[i][1], result.value[i][2]>> \in qualifying

\* suggest_word has just returned a word
SuggestWordReturned ==
    pc = "returned" /\ call.op = "suggest_word" /\ result.kind = "return"

\* C16: every word in a list suggest_words returns is in the engine's current
\* dictionary, and suggest_word(input, dictionary) returns a word of the list
\* it was given or the input itself.
C16_SuggestionsFromDictionary ==
    /\ SuggestReturned =>
           \A i \in 1..Len(result.value) : InSeq(result.value[i][1], dictionary)
    /\ SuggestWordReturned =>
           (result.value = call.input_word \/ InSeq(result.value, call.dictionary))

=============================================================================
